---- MODULE Spec2Model ----
(***************************************************************************)
(* FandomScraper (src/scraper.ts): the constructor, getCharactersPage,     *)
(* getAll and the classic listing walk _getAllClassic with its helpers     *)
(* parseCharacterPage, convertImageToBase64, filterBannedElement and       *)
(* extractPageId.                                                          *)
(*                                                                         *)
(* Text is a sequence of one-character strings, so that toLowerCase,       *)
(* includes and the pageId regular expression are computed, not assumed.   *)
(* A getAll run advances from one await to the next in one step: the code  *)
(* between two awaits runs without interruption on the JavaScript thread.  *)
(***************************************************************************)
EXTENDS Integers, Sequences, FiniteSets, TLC

\* ------------------------------------------------------------------ bounds

\* options.limit ranges over 0..MaxLimit, options.offset over -1..MaxLimit+1
MaxLimit == 3
\* a listing is a chain of 1..MaxPages pages
MaxPages == 2

\* ------------------------------------------------------------ JS primitives

\* getAttribute of a missing attribute
Null == "<null>"

\* !x for a string-or-null attribute value
FalsyStr(x) == x = Null \/ x = ""

\* String.prototype.toLowerCase on one character of the model's alphabet
LowerChar(c) ==
    CASE c = "C" -> "c"
      [] c = "A" -> "a"
      [] c = "M" -> "m"
      [] OTHER -> c

\* String.prototype.toLowerCase
toLowerCase(s) == [i \in 1..Len(s) |-> LowerChar(s[i])]

\* String.prototype.includes: sub occurs in s as a contiguous run
includes(s, sub) ==
    \E i \in 0..(Len(s) - Len(sub)) :
        \A j \in 1..Len(sub) : s[i + j] = sub[j]

\* ------------------------------------------------- the site being scraped

\* allCharactersPage.classic.banList (utils): substrings of administrative
\* listing rows; the entry is written in mixed case, as filterBannedElement
\* lower-cases both sides
banList == << <<"C", "a">> >>

\* Listing elements (the anchors of class listCharactersElement.value): their
\* textContent and their href attribute
ElemA == [text |-> <<"m">>, href |-> "/A"]
ElemB == [text |-> <<"a", "m">>, href |-> "/B"]
ElemC == [text |-> <<"a", "c">>, href |-> "/C"]
ElemBanLower == [text |-> <<"c", "a">>, href |-> "/C"]
ElemBanUpper == [text |-> <<"m", "C", "A">>, href |-> "/B"]
ElemBanNoHref == [text |-> <<"C", "a", "m">>, href |-> Null]
ElemNoHref == [text |-> <<"m">>, href |-> Null]
ElemNoName == [text |-> <<>>, href |-> "/A"]

\* The listing pages a site is built from: the element lists the walk has to
\* tell apart (plain rows, banned rows in either case between plain ones, a
\* banned row without href, a plain row without href, a row without text, an
\* empty page)
PageCatalog ==
    { <<ElemA, ElemB, ElemC>>,
      <<ElemBanLower, ElemA, ElemBanUpper, ElemC, ElemBanNoHref>>,
      <<ElemA, ElemNoHref, ElemB>>,
      <<ElemNoName, ElemA>>,
      <<>> }

\* How the last page of a listing ends: without a next control, or with a
\* next control that has no href
LastNext == {"none", "nohref"}

\* The listings: chains of 1..MaxPages catalogue pages; every page but the
\* last carries a next control whose href is the following page
Sites ==
    UNION { [pages : [1..n -> PageCatalog], last : LastNext] : n \in 1..MaxPages }

\* The href of the next control that leads to page n of the listing
NextUrls == <<"list?from=1", "list?from=2", "list?from=3", "list?from=4">>

\* Page n of the listing is served at the schema's charactersUrl for n = 1
\* and at NextUrls[n] otherwise
NextUrl(n) == NextUrls[n]

\* The listing page a URL serves
PageIndexOf(url) ==
    IF \E n \in 2..Len(NextUrls) : NextUrls[n] = url
    THEN CHOOSE n \in 2..Len(NextUrls) : NextUrls[n] = url
    ELSE 1

\* getElementsByClassName(allCharactersPage.classic.next.value)[0] of page n
\* of site s and its href: "none" when the page has no next control
NextControl(s, n) ==
    IF n < Len(s.pages) THEN [present |-> TRUE, href |-> NextUrl(n + 1)]
    ELSE IF s.last = "nohref" THEN [present |-> TRUE, href |-> Null]
    ELSE [present |-> FALSE, href |-> Null]

\* One double quote, as a character of a script's text
Quote == "\""

Digits == <<"0", "1", "2", "3", "4", "5", "6", "7", "8", "9">>

IsDigit(c) == \E d \in 1..10 : Digits[d] = c

DigitValue(c) == (CHOOSE d \in 1..10 : Digits[d] = c) - 1

\* The character pages of the site, by href. A script's text is a sequence of
\* tokens: a quote, the word pageId, a colon, a digit, or other text "x".
\*   /A  the pageId pattern in its second script; an infobox row with a
\*       bracketed annotation, a row without value element followed by a
\*       row of the same data-source with one; three images, one without src
\*   /B  no script, no infobox, no image
\*   /C  a first script that mentions pageId without the pattern and a second
\*       one with it; a row whose first value element is empty and whose
\*       second is not; a row whose data-source is the image class
EntryPages ==
    [h \in {"/A", "/B", "/C"} |->
        CASE h = "/A" ->
               [scripts |-> << <<"x">>,
                               <<"x", Quote, "pageId", Quote, ":", "4", "2", "x">> >>,
                infobox |-> << [source |-> "kanji",
                                values |-> << <<"L", "[", "1", "]">> >>],
                               [source |-> "status", values |-> <<>>],
                               [source |-> "status", values |-> << <<"o", "k">> >>] >>,
                images |-> << [class |-> "pi-image", src |-> "a1.png"],
                              [class |-> "pi-image", src |-> Null],
                              [class |-> "pi-image", src |-> "a2.png"] >>]
          [] h = "/B" ->
               [scripts |-> <<>>, infobox |-> <<>>, images |-> <<>>]
          [] OTHER ->
               [scripts |-> << <<"pageId", "x">>,
                               <<Quote, "pageId", Quote, ":", "7">> >>,
                infobox |-> << [source |-> "pi-image", values |-> << <<"x">> >>],
                               [source |-> "kanji", values |-> << <<>>, <<"z">> >>],
                               [source |-> "status", values |-> << <<"o", "k">> >>] >>,
                images |-> << [class |-> "pi-image", src |-> "c1.png"] >>]]

\* buffer.toString('base64') of the bytes served at an image URL
Base64Of(src) ==
    CASE src = "a1.png" -> "YTE="
      [] src = "a2.png" -> "YTI="
      [] OTHER -> "YzE="

\* --------------------------------------------------------------- schemas

\* The field map of a schema (IDataSource), in key order: logical field name
\* and locator; an empty locator means the site has no such field
DataSource ==
    << [key |-> "kanji", locator |-> "kanji"],
       [key |-> "images", locator |-> "pi-image"],
       [key |-> "age", locator |-> ""],
       [key |-> "status", locator |-> "status"] >>

DeathNoteFR ==
    [url |-> "https://deathnote.fandom.com/fr/wiki/",
     pageFormat |-> "classic",
     charactersUrl |-> "https://deathnote.fandom.com/fr/wiki/Cat%C3%A9gorie:Personnages"]

DeathNoteEN ==
    [url |-> "https://deathnote.fandom.com/wiki/",
     pageFormat |-> "classic",
     charactersUrl |-> "https://deathnote.fandom.com/wiki/Category:Manga_characters"]

DragonBallFR ==
    [url |-> "https://dragonball.fandom.com/fr/wiki/",
     pageFormat |-> "classic",
     charactersUrl |-> "https://dragonball.fandom.com/fr/wiki/Catégorie:Personnages"]

DragonBallEN ==
    [url |-> "https://dragonball.fandom.com/wiki/",
     pageFormat |-> "classic",
     charactersUrl |-> "https://dragonball.fandom.com/wiki/Characters"]

\* The registry: Schemas[name][language]
Schemas ==
    [n \in {"death-note", "dragon-ball"} |->
        [l \in {"en", "fr"} |->
            CASE n = "death-note" /\ l = "en" -> DeathNoteEN
              [] n = "death-note" /\ l = "fr" -> DeathNoteFR
              [] n = "dragon-ball" /\ l = "en" -> DragonBallEN
              [] OTHER -> DragonBallFR]]

\* The value undefined, where a schema is expected
UndefinedSchema == [url |-> Null, pageFormat |-> Null, charactersUrl |-> Null]

\* What a caller may pass to the constructor: a registered name, an unknown
\* one, the empty string; a registered language, null, an unknown one
CtorNames == {"death-note", "dragon-ball", "one-piece", ""}

CtorLanguages == {"en", "fr", Null, "de"}

\* An instance before its construction
NoScraper ==
    [state |-> "none", schema |-> UndefinedSchema, error |-> "none",
     name |-> "", language |-> Null]

\* ------------------------------------------------------- pure helpers

\* IsBannedElement without the two toLowerCase calls
IsBannedElementCaseSensitive(element, bans) ==
    \E k \in 1..Len(bans) : includes(element.text, bans[k])

\* filterBannedElement's predicate: the element's lower-cased text contains
\* some lower-cased ban substring
IsBannedElement(element, bans) ==
    \E k \in 1..Len(bans) :
        includes(toLowerCase(element.text), toLowerCase(bans[k]))

\* filterBannedElement: the elements that are not banned, in document order
RECURSIVE filterBannedElement(_, _)
filterBannedElement(elements, bans) ==
    IF elements = <<>> THEN <<>>
    ELSE IF IsBannedElement(Head(elements), bans)
         THEN filterBannedElement(Tail(elements), bans)
         ELSE <<Head(elements)>> \o filterBannedElement(Tail(elements), bans)

\* parseInt(digits, 10) of a non-empty run of digits
RECURSIVE parseInt(_)
parseInt(ds) ==
    IF ds = <<>> THEN 0
    ELSE 10 * parseInt(SubSeq(ds, 1, Len(ds) - 1)) + DigitValue(ds[Len(ds)])

\* Whether /"pageId":(\d+)/ matches s at position i
PageIdAt(s, i) ==
    /\ i + 4 <= Len(s)
    /\ s[i] = Quote
    /\ s[i + 1] = "pageId"
    /\ s[i + 2] = Quote
    /\ s[i + 3] = ":"
    /\ IsDigit(s[i + 4])

\* extractPageId: the number of the leftmost match of /"pageId":(\d+)/, the
\* digits taken greedily; 0 without a match
extractPageId(scriptContent) ==
    LET starts == {i \in 1..Len(scriptContent) : PageIdAt(scriptContent, i)}
    IN  IF starts = {} THEN 0
        ELSE LET i == CHOOSE x \in starts : \A y \in starts : x <= y
                 last == CHOOSE e \in (i + 4)..Len(scriptContent) :
                            /\ \A j \in (i + 4)..e : IsDigit(scriptContent[j])
                            /\ (e = Len(scriptContent) \/ ~IsDigit(scriptContent[e + 1]))
             IN  parseInt(SubSeq(scriptContent, i + 4, last))

\* Array.from(allScripts).find(script => script.textContent?.includes('pageId'))
\* followed by script?.textContent || '': the text of the first script that
\* mentions pageId, the empty text when there is none
PageIdScript(scripts) ==
    LET hits == {i \in 1..Len(scripts) : \E j \in 1..Len(scripts[i]) : scripts[i][j] = "pageId"}
    IN  IF hits = {} THEN <<>>
        ELSE scripts[CHOOSE x \in hits : \A y \in hits : x <= y]

\* removeBrackets (func/parsing): the text without its bracketed annotations
RECURSIVE removeBracketsFrom(_, _)
removeBracketsFrom(s, inside) ==
    IF s = <<>> THEN <<>>
    ELSE IF Head(s) = "[" THEN removeBracketsFrom(Tail(s), TRUE)
    ELSE IF Head(s) = "]" /\ inside THEN removeBracketsFrom(Tail(s), FALSE)
    ELSE IF inside THEN removeBracketsFrom(Tail(s), inside)
    ELSE <<Head(s)>> \o removeBracketsFrom(Tail(s), inside)

removeBrackets(value) == removeBracketsFrom(value, FALSE)

\* isValidConstructor: !!constructor.name
isValidConstructor(name, language) == name # ""

\* data[key] = value on an object whose keys keep their insertion order
SetKey(data, key, value) ==
    IF \E n \in 1..Len(data) : data[n].key = key
    THEN [n \in 1..Len(data) |-> IF data[n].key = key THEN [key |-> key, value |-> value]
                                                      ELSE data[n]]
    ELSE Append(data, [key |-> key, value |-> value])

\* A string value and an array value of a data field
StringValue(chars) == [kind |-> "string", items |-> chars]

ArrayValue(items) == [kind |-> "array", items |-> items]

\* The elements of a sequence that satisfy a class test, in document order
ByClassName(els, class) == SelectSeq(els, LAMBDA e : e.class = class)

\* GeneralField where a miss empties the data extracted so far
GeneralFieldMissResets(page, key, sourceKey, data) ==
    LET rows == SelectSeq(page.infobox, LAMBDA row : row.source = sourceKey)
    IN  IF rows = <<>> THEN <<>>
        ELSE IF rows[1].values = <<>> THEN <<>>
        ELSE IF rows[1].values[1] = <<>> THEN <<>>
        ELSE SetKey(data, key, StringValue(removeBrackets(rows[1].values[1])))

\* parseCharacterPage, lines 258-275: the general case for one key
GeneralField(page, key, sourceKey, data) ==
    LET rows == SelectSeq(page.infobox, LAMBDA row : row.source = sourceKey)
    IN  IF rows = <<>> THEN data
        ELSE IF rows[1].values = <<>> THEN data
        ELSE IF rows[1].values[1] = <<>> THEN data
        ELSE SetKey(data, key, StringValue(removeBrackets(rows[1].values[1])))

\* parseCharacterPage from key number p.k on, image number p.i of the images
\* key: runs to the end (p.k past the last key) or to the next await of
\* convertImageToBase64 (p.wait)
RECURSIVE parseCharacterPage(_, _, _)
parseCharacterPage(page, options, p) ==
    IF p.k > Len(DataSource) THEN p
    ELSE LET key == DataSource[p.k].key
             sourceKey == DataSource[p.k].locator
             elements == ByClassName(page.images, sourceKey)
         IN  IF FalsyStr(sourceKey)
             THEN parseCharacterPage(page, options, [p EXCEPT !.k = @ + 1])
             ELSE IF key = "images" /\ p.i <= Len(elements)
             THEN LET src == elements[p.i].src
                  IN  IF FalsyStr(src)
                      THEN parseCharacterPage(page, options, [p EXCEPT !.i = @ + 1])
                      ELSE IF options.base64
                      THEN [p EXCEPT !.wait = TRUE]
                      ELSE parseCharacterPage(page, options,
                              [p EXCEPT !.images = Append(@, src), !.i = @ + 1])
             ELSE LET withImages == IF key = "images"
                                    THEN SetKey(p.data, key, ArrayValue(p.images))
                                    ELSE p.data
                  IN  parseCharacterPage(page, options,
                          [p EXCEPT !.data = GeneralField(page, key, sourceKey, withImages),
                                    !.k = @ + 1, !.i = 1, !.images = <<>>])

\* The state of parseCharacterPage on entry
ParseStart == [k |-> 1, i |-> 1, images |-> <<>>, data |-> <<>>, wait |-> FALSE]

\* ---------------------------------------------------------------- state

\* The scraper instances and the getAll invocations in flight
Insts == {1, 2}

Runs == {1, 2}

VARIABLES
    site,            \* the listing served by the wiki
    scraper,         \* per instance: state of construction and _schema
    CharactersPage,  \* per instance: _CharactersPage, the number of the listing
                     \* page it holds, 0 before the first assignment
    run              \* per invocation: the frame of getAll / _getAllClassic

vars == <<site, scraper, CharactersPage, run>>

\* The default value of getAll's parameter, line 139
DefaultOptions ==
    [offset |-> 0, limit |-> 100000, recursive |-> FALSE, base64 |-> TRUE,
     withId |-> TRUE]

\* The options a caller may pass: limit and offset inside and just outside
\* the valid range, every combination of the three flags; or none, and
\* getAll takes its default
OptionsSet ==
    [limit : 0..MaxLimit, offset : (-1)..(MaxLimit + 1),
     recursive : BOOLEAN, base64 : BOOLEAN, withId : BOOLEAN]
    \cup {DefaultOptions}

\* The frame of an invocation that has not been called
IdleFrame ==
    [pc |-> "idle", inst |-> 1,
     options |-> [limit |-> 1, offset |-> 0, recursive |-> FALSE,
                  base64 |-> FALSE, withId |-> FALSE],
     data |-> <<>>, hasNext |-> TRUE, offset |-> 0, count |-> 0,
     elements |-> <<>>, idx |-> 1, pending |-> Null, p |-> ParseStart,
     err |-> "none", outcome |-> "none", result |-> <<>>,
     \* history: the listing nodes the records came from, the pages walked,
     \* the requests issued, the calls of parseCharacterPage
     srcPos |-> <<>>, walked |-> <<>>,
     nList |-> 0, nEntry |-> 0, nImage |-> 0, nParse |-> 0]

\* The elements of class listCharactersElement.value of listing page n, each
\* with its DOM node (page, position in document order)
PageElements(n) ==
    [k \in 1..Len(site.pages[n]) |->
        [text |-> site.pages[n][k].text, href |-> site.pages[n][k].href,
         node |-> <<n, k>>]]

\* ------------------------------------------------------------- getAll

\* getAllCatch returning what the run had collected
getAllCatchPartial(f, e) ==
    [f EXCEPT !.pc = "done", !.err = e, !.outcome = "returned", !.result = f.data]

\* getAll, lines 152-155: the catch of every error thrown below it, and the
\* return of the empty collection
getAllCatch(f, e) ==
    [f EXCEPT !.pc = "done", !.err = e, !.outcome = "returned", !.result = <<>>]

\* _getAllClassic's return data, handed on by getAll line 146
ReturnData(f) ==
    [f EXCEPT !.pc = "done", !.outcome = "returned", !.result = f.data]

\* AfterFor that starts again from the first page when the next control is
\* missing
AfterForRewalk(f, cp) ==
    LET nextElement == NextControl(site, cp)
    IN  IF ~nextElement.present \/ FalsyStr(nextElement.href)
        THEN [f EXCEPT !.pc = "fetchList", !.pending = DeathNoteEN.charactersUrl,
                       !.nList = @ + 1]
        ELSE [f EXCEPT !.pc = "fetchList", !.pending = nextElement.href,
                       !.nList = @ + 1]

\* AfterFor that never follows the next control
AfterForNoNext(f, cp) == ReturnData([f EXCEPT !.hasNext = FALSE])

\* Lines 206-216, then the loop test of line 166: with no next control, or
\* one without href, hasNext falls and the walk returns; otherwise the next
\* page is requested. cp is this._CharactersPage as read on line 206.
AfterFor(f, cp) ==
    LET nextElement == NextControl(site, cp)
    IN  IF ~nextElement.present \/ FalsyStr(nextElement.href)
        THEN ReturnData([f EXCEPT !.hasNext = FALSE])
        ELSE [f EXCEPT !.pc = "fetchList", !.pending = nextElement.href,
                       !.nList = @ + 1]

\* ForLoop acting one element before the requested offset
RECURSIVE ForLoopOneEarly(_, _)
ForLoopOneEarly(f, cp) ==
    IF f.idx > Len(f.elements) THEN AfterFor(f, cp)
    ELSE LET element == f.elements[f.idx]
         IN  IF f.offset >= f.options.offset - 1
             THEN IF FalsyStr(element.href) THEN getAllCatch(f, "No URL found")
                  ELSE IF element.text = <<>> THEN getAllCatch(f, "No name found")
                  ELSE [f EXCEPT !.pc = "fetchEntry", !.pending = element.href,
                                 !.nEntry = @ + 1]
             ELSE ForLoopOneEarly([f EXCEPT !.offset = @ + 1, !.idx = @ + 1], cp)

\* ForLoop without the test of the name on line 175
RECURSIVE ForLoopNoNameCheck(_, _)
ForLoopNoNameCheck(f, cp) ==
    IF f.idx > Len(f.elements) THEN AfterFor(f, cp)
    ELSE LET element == f.elements[f.idx]
         IN  IF f.offset >= f.options.offset
             THEN IF FalsyStr(element.href) THEN getAllCatch(f, "No URL found")
                  ELSE [f EXCEPT !.pc = "fetchEntry", !.pending = element.href,
                                 !.nEntry = @ + 1]
             ELSE ForLoopNoNameCheck([f EXCEPT !.offset = @ + 1, !.idx = @ + 1], cp)

\* Lines 168-177 and 202: the for loop from element f.idx on, up to the
\* request of a character page, a throw, or the end of the page
RECURSIVE ForLoop(_, _)
ForLoop(f, cp) ==
    IF f.idx > Len(f.elements) THEN AfterFor(f, cp)
    ELSE LET element == f.elements[f.idx]
         IN  IF f.offset >= f.options.offset
             THEN IF FalsyStr(element.href) THEN getAllCatch(f, "No URL found")
                  ELSE IF element.text = <<>> THEN getAllCatch(f, "No name found")
                  ELSE [f EXCEPT !.pc = "fetchEntry", !.pending = element.href,
                                 !.nEntry = @ + 1]
             ELSE ForLoop([f EXCEPT !.offset = @ + 1, !.idx = @ + 1], cp)

\* WhileTop with the offset counter starting again on every page
WhileTopResetOffset(f, cp) ==
    IF f.hasNext /\ f.count < f.options.limit
    THEN ForLoop([f EXCEPT !.elements = filterBannedElement(PageElements(cp), banList),
                           !.idx = 1, !.walked = Append(@, cp), !.offset = 0], cp)
    ELSE ReturnData(f)

\* Lines 166-167: the loop test and the filtered elements of the page that
\* this._CharactersPage holds
WhileTop(f, cp) ==
    IF f.hasNext /\ f.count < f.options.limit
    THEN ForLoop([f EXCEPT !.elements = filterBannedElement(PageElements(cp), banList),
                           !.idx = 1, !.walked = Append(@, cp)], cp)
    ELSE ReturnData(f)

\* NewRecord with the id attached whatever withId says
NewRecordAlwaysId(f, page, characterData) ==
    [hasId |-> TRUE, id |-> extractPageId(PageIdScript(page.scripts)),
     url |-> f.elements[f.idx].href, name |-> f.elements[f.idx].text,
     data |-> [defined |-> TRUE, map |-> characterData]]

\* Lines 182-190: the record pushed for the current element
NewRecord(f, page, characterData) ==
    LET element == f.elements[f.idx]
        base == [hasId |-> FALSE, id |-> 0, url |-> element.href,
                 name |-> element.text,
                 data |-> [defined |-> TRUE, map |-> characterData]]
    IN  IF f.options.withId
        THEN [base EXCEPT !.hasId = TRUE,
                          !.id = extractPageId(PageIdScript(page.scripts))]
        ELSE base

\* ResetData without lines 194-196
ResetDataNever(options, data) == data

\* Lines 194-196: without recursive the data of the last record is undefined
ResetData(options, data) ==
    IF ~options.recursive
    THEN [data EXCEPT ![Len(data)].data = [defined |-> FALSE, map |-> <<>>]]
    ELSE data

\* data.unshift in the place of data.push
PushFront(data, record) == <<record>> \o data

\* data.push: the record goes to the end of the array
Push(data, record) == Append(data, record)

\* PushAndContinue without the return of lines 198-200
PushAndContinueNoLimit(f, cp, page, characterData) ==
    LET f1 == [f EXCEPT !.data = ResetData(f.options,
                                    Push(@, NewRecord(f, page, characterData))),
                        !.count = @ + 1,
                        !.srcPos = Append(@, f.elements[f.idx].node)]
    IN  ForLoop([f1 EXCEPT !.offset = @ + 1, !.idx = @ + 1], cp)

\* PushAndContinue returning one record late: count > options.limit on
\* line 198
PushAndContinueLate(f, cp, page, characterData) ==
    LET f1 == [f EXCEPT !.data = ResetData(f.options,
                                    Push(@, NewRecord(f, page, characterData))),
                        !.count = @ + 1,
                        !.srcPos = Append(@, f.elements[f.idx].node)]
    IN  IF f1.count > f1.options.limit THEN ReturnData(f1)
        ELSE ForLoop([f1 EXCEPT !.offset = @ + 1, !.idx = @ + 1], cp)

\* Lines 182-202: push the record, count it, return at the limit, otherwise
\* go on with the next element
PushAndContinue(f, cp, page, characterData) ==
    LET f1 == [f EXCEPT !.data = ResetData(f.options,
                                    Push(@, NewRecord(f, page, characterData))),
                        !.count = @ + 1,
                        !.srcPos = Append(@, f.elements[f.idx].node)]
    IN  IF f1.count = f1.options.limit THEN ReturnData(f1)
        ELSE ForLoop([f1 EXCEPT !.offset = @ + 1, !.idx = @ + 1], cp)

\* Lines 178-180 on: parseCharacterPage has returned, or waits for an image
AfterParse(f, cp, page, p) ==
    IF p.wait
    THEN [f EXCEPT !.pc = "convertImage", !.p = p, !.nImage = @ + 1]
    ELSE PushAndContinue([f EXCEPT !.p = p], cp, page, p.data)

\* InvalidOptions without the test of line 143
InvalidOptionsNoUpperTest(options) ==
    IF options.limit < 1 THEN "Limit must be greater than 0"
    ELSE IF options.offset < 0 THEN "Offset must be greater than 0"
    ELSE "none"

\* Lines 141-146: the checks of the options and the dispatch on pageFormat
InvalidOptions(options) ==
    IF options.limit < 1 THEN "Limit must be greater than 0"
    ELSE IF options.offset < 0 THEN "Offset must be greater than 0"
    ELSE IF options.offset > options.limit THEN "Offset must be less than limit"
    ELSE "none"

\* ------------------------------------------------------------- actions

\* The constructor, lines 75-81: what becomes of the instance. name and
\* language record the arguments of the call.
Constructed(name, language) ==
    LET args == [NoScraper EXCEPT !.name = name, !.language = language]
    IN  IF ~isValidConstructor(name, language)
        THEN [args EXCEPT !.state = "threw", !.error = "Invalid wiki name"]
        ELSE LET lang == IF language = Null THEN "en" ELSE language
             IN  IF name \notin DOMAIN Schemas
                 THEN \* Schemas[name] is undefined: reading [language] throws
                      [args EXCEPT !.state = "threw", !.error = "TypeError"]
                 ELSE IF lang \notin DOMAIN Schemas[name]
                 THEN \* Schemas[name][language] is undefined, and is stored
                      [args EXCEPT !.state = "ok"]
                 ELSE [args EXCEPT !.state = "ok", !.schema = Schemas[name][lang]]

\* new FandomScraper({ name, language })
Construct(i, name, language) ==
    /\ scraper[i].state = "none"
    /\ scraper' = [scraper EXCEPT ![i] = Constructed(name, language)]
    /\ UNCHANGED <<site, CharactersPage, run>>

\* getCharactersPage(url) called by the user of the instance, lines 106-108,
\* for the URL of a page of the listing
GetCharactersPage(i, n) ==
    /\ scraper[i].state = "ok"
    /\ \A r \in Runs : run[r].pc = "idle"
    /\ n \in 1..Len(site.pages)
    /\ CharactersPage' = [CharactersPage EXCEPT
                             ![i] = PageIndexOf(IF n = 1 THEN DeathNoteEN.charactersUrl
                                                ELSE NextUrl(n))]
    /\ UNCHANGED <<site, scraper, run>>

\* Call where the walk starts from the page the instance holds, when it
\* holds one past the first
CallFromLoadedPage(r, i, options) ==
    /\ run[r].pc = "idle"
    /\ scraper[i].state = "ok"
    /\ LET f == [IdleFrame EXCEPT !.inst = i, !.options = options]
           schema == scraper[i].schema
       IN  run' = [run EXCEPT ![r] =
              IF InvalidOptions(options) # "none"
              THEN getAllCatch(f, InvalidOptions(options))
              ELSE IF schema = UndefinedSchema
              THEN getAllCatch(f, "TypeError")
              ELSE IF schema.pageFormat = "classic"
              THEN [f EXCEPT !.pc = "fetchList",
                             !.pending = IF CharactersPage[i] > 1
                                         THEN NextUrl(CharactersPage[i])
                                         ELSE schema.charactersUrl,
                             !.nList = 1]
              ELSE [f EXCEPT !.pc = "done", !.outcome = "returned"]]
    /\ UNCHANGED <<site, scraper, CharactersPage>>

\* getAll(options), lines 139-156, up to the first await: the request of the
\* schema's charactersUrl on line 164
Call(r, i, options) ==
    /\ run[r].pc = "idle"
    /\ scraper[i].state = "ok"
    /\ LET f == [IdleFrame EXCEPT !.inst = i, !.options = options]
           schema == scraper[i].schema
       IN  run' = [run EXCEPT ![r] =
              IF InvalidOptions(options) # "none"
              THEN getAllCatch(f, InvalidOptions(options))
              ELSE IF schema = UndefinedSchema
              THEN getAllCatch(f, "TypeError")
              ELSE IF schema.pageFormat = "classic"
              THEN [f EXCEPT !.pc = "fetchList", !.pending = schema.charactersUrl,
                             !.nList = 1]
              ELSE [f EXCEPT !.pc = "done", !.outcome = "returned"]]
    /\ UNCHANGED <<site, scraper, CharactersPage>>

\* The listing page awaited on line 164 or 214 arrives: getCharactersPage
\* assigns it to _CharactersPage and the walk goes on from line 166
ListFetched(r) ==
    /\ run[r].pc = "fetchList"
    /\ LET i == run[r].inst
           cp == PageIndexOf(run[r].pending)
       IN  /\ CharactersPage' = [CharactersPage EXCEPT ![i] = cp]
           /\ run' = [run EXCEPT ![r] = WhileTop(run[r], cp)]
    /\ UNCHANGED <<site, scraper>>

\* The character page awaited on line 177 arrives
EntryFetched(r) ==
    /\ run[r].pc = "fetchEntry"
    /\ LET f == run[r]
           cp == CharactersPage[f.inst]
           page == EntryPages[f.pending]
       IN  run' = [run EXCEPT ![r] =
              IF f.options.recursive
              THEN AfterParse([f EXCEPT !.nParse = @ + 1], cp, page,
                              parseCharacterPage(page, f.options, ParseStart))
              ELSE PushAndContinue(f, cp, page, <<>>)]
    /\ UNCHANGED <<site, scraper, CharactersPage>>

\* convertImageToBase64 awaited on line 249 returns the encoded image
ImageConverted(r) ==
    /\ run[r].pc = "convertImage"
    /\ LET f == run[r]
           cp == CharactersPage[f.inst]
           page == EntryPages[f.pending]
           sourceKey == DataSource[f.p.k].locator
           src == ByClassName(page.images, sourceKey)[f.p.i].src
           p == [f.p EXCEPT !.images = Append(@, Base64Of(src)), !.i = @ + 1,
                            !.wait = FALSE]
       IN  run' = [run EXCEPT ![r] =
              AfterParse(f, cp, page, parseCharacterPage(page, f.options, p))]
    /\ UNCHANGED <<site, scraper, CharactersPage>>

\* fetchPage throws (lines 113-115) for the listing or the character page
FetchFails(r) ==
    /\ run[r].pc \in {"fetchList", "fetchEntry"}
    /\ run' = [run EXCEPT ![r] = getAllCatch(run[r], "Error while fetching")]
    /\ UNCHANGED <<site, scraper, CharactersPage>>

\* convertImageToBase64 rethrows (lines 295-298)
ImageFails(r) ==
    /\ run[r].pc = "convertImage"
    /\ run' = [run EXCEPT ![r] = getAllCatch(run[r], "Error fetching or converting image")]
    /\ UNCHANGED <<site, scraper, CharactersPage>>

\* The caller has taken the value getAll returned: the frame is gone, the
\* instance keeps the listing page the run left in _CharactersPage
Finish(r) ==
    /\ run[r].pc = "done"
    /\ run' = [run EXCEPT ![r] = IdleFrame]
    /\ UNCHANGED <<site, scraper, CharactersPage>>

\* ------------------------------------------------------- specifications

\* One instance, new FandomScraper({ name: 'death-note' }), used by one
\* caller: getAll runs and getCharactersPage calls one after the other
Init ==
    /\ site \in Sites
    /\ scraper = [i \in Insts |-> IF i = 1 THEN Constructed("death-note", Null)
                                  ELSE NoScraper]
    /\ CharactersPage = [i \in Insts |-> 0]
    /\ run = [r \in Runs |-> IdleFrame]

Next ==
    \/ \E n \in 1..MaxPages : GetCharactersPage(1, n)
    \/ \E options \in OptionsSet : Call(1, 1, options)
    \/ ListFetched(1)
    \/ EntryFetched(1)
    \/ ImageConverted(1)
    \/ FetchFails(1)
    \/ ImageFails(1)
    \/ Finish(1)

Spec == Init /\ [][Next]_vars

\* One getAll run on that instance, every request of which completes: the
\* promise of the fetch is fulfilled and the event loop resumes the run
NextLive ==
    \/ \E options \in OptionsSet : Call(1, 1, options)
    \/ ListFetched(1)
    \/ EntryFetched(1)
    \/ ImageConverted(1)

\* Weak fairness of each resumption A, WF_vars(A), with ENABLED <<A>>_vars
\* written as the guard of A: a resumption is enabled exactly while the run
\* waits at its await, and it always changes the frame of the run
SpecLive ==
    /\ Init
    /\ [][NextLive]_vars
    /\ ([]<>(run[1].pc # "fetchList") \/ []<><<ListFetched(1)>>_vars)
    /\ ([]<>(run[1].pc # "fetchEntry") \/ []<><<EntryFetched(1)>>_vars)
    /\ ([]<>(run[1].pc # "convertImage") \/ []<><<ImageConverted(1)>>_vars)

\* Construction included: the instance is built from any name and language
\* a caller may pass, over the listings of one page
InitCtor ==
    /\ site \in {s \in Sites : Len(s.pages) = 1}
    /\ scraper = [i \in Insts |-> NoScraper]
    /\ CharactersPage = [i \in Insts |-> 0]
    /\ run = [r \in Runs |-> IdleFrame]

NextCtor ==
    \/ \E name \in CtorNames, language \in CtorLanguages : Construct(1, name, language)
    \/ Next

SpecCtor == InitCtor /\ [][NextCtor]_vars

\* Two getAll runs in flight at once, on one instance or on two, every
\* request answered: the runs interleave at their awaits
ConcOptions ==
    {o \in OptionsSet : /\ o.limit >= 1
                        /\ o.offset = 0
                        /\ ~o.recursive /\ ~o.base64 /\ ~o.withId}

InitConc ==
    /\ site \in Sites
    /\ scraper = [i \in Insts |-> IF i = 1 THEN Constructed("death-note", "en")
                                  ELSE Constructed("death-note", "fr")]
    /\ CharactersPage = [i \in Insts |-> 0]
    /\ run = [r \in Runs |-> IdleFrame]

NextConc ==
    \/ \E options \in ConcOptions : Call(1, 1, options)
    \/ \E i \in Insts, options \in ConcOptions : Call(2, i, options)
    \/ \E r \in Runs : ListFetched(r)
    \/ \E r \in Runs : EntryFetched(r)

SpecConc == InitConc /\ [][NextConc]_vars

\* ------------------------------------------------- the listing, as given

\* The text contains a ban substring, case ignored: some run of its
\* characters equals the substring letter by letter up to case
BannedText(text) ==
    \E k \in 1..Len(banList) :
        \E i \in 0..(Len(text) - Len(banList[k])) :
            \A j \in 1..Len(banList[k]) :
                LowerChar(text[i + j]) = LowerChar(banList[k][j])

\* The elements of listing page n that no ban substring matches
Survivors(n) == SelectSeq(PageElements(n), LAMBDA e : ~BannedText(e.text))

\* The filtered entries of pages 1..n, concatenated
RECURSIVE SurvivorsUpTo(_)
SurvivorsUpTo(n) ==
    IF n = 0 THEN <<>> ELSE SurvivorsUpTo(n - 1) \o Survivors(n)

\* e1 .. eN
Listing == SurvivorsUpTo(Len(site.pages))

Min(a, b) == IF a <= b THEN a ELSE b

\* e(k+1) .. e(min(k+n, N)) for offset k and limit n
Window(options) ==
    SubSeq(Listing, options.offset + 1,
           Min(options.offset + options.limit, Len(Listing)))

\* The url and name of each record; the href and text of each entry
RecordKeys(records) ==
    [n \in 1..Len(records) |-> <<records[n].url, records[n].name>>]

EntryKeys(entries) ==
    [n \in 1..Len(entries) |-> <<entries[n].href, entries[n].text>>]

ValidOptions(options) ==
    options.limit >= 1 /\ options.offset >= 0 /\ options.offset <= options.limit

\* The run has returned to its caller
Returned(r) == run[r].pc = "done" /\ run[r].outcome = "returned"

\* The walk of run r reached a page with no next control or with a next
\* control without href: it went through the last page of the listing and saw
\* its end
Exhausted(r) ==
    /\ run[r].walked # <<>>
    /\ run[r].walked[Len(run[r].walked)] = Len(site.pages)
    /\ ~run[r].hasNext

\* ------------------------------------------------------------------ C1

\* C1, as stated: with valid options getAll returns at most limit records,
\* and fewer than limit only if the listing walk was exhausted.
C1_AsStated ==
    (Returned(1) /\ ValidOptions(run[1].options)) =>
        /\ Len(run[1].result) <= run[1].options.limit
        /\ (Len(run[1].result) < run[1].options.limit => Exhausted(1))

\* C1, amended: with valid options getAll returns at most limit records, and
\* fewer than limit only if the listing walk was exhausted or an error ended
\* the run, in which case it returns no record at all.
C1_AtMostLimit ==
    (Returned(1) /\ ValidOptions(run[1].options)) =>
        /\ Len(run[1].result) <= run[1].options.limit
        /\ (Len(run[1].result) < run[1].options.limit =>
               Exhausted(1) \/ run[1].err # "none")
        /\ (run[1].err # "none" => run[1].result = <<>>)

\* A run over a listing with more entries than limit that returned exactly
\* limit records, more than one, without reaching the end of the listing
C1_Witness ==
    /\ Returned(1)
    /\ run[1].err = "none"
    /\ ~Exhausted(1)
    /\ Len(run[1].result) = run[1].options.limit
    /\ run[1].options.limit >= 2
    /\ Len(Listing) > run[1].options.offset + run[1].options.limit

\* ------------------------------------------------------------------ C2

\* C2, as stated: with offset k and limit n the records returned are exactly
\* the entries e(k+1) .. e(min(k+n, N)) of the filtered listing.
C2_AsStated ==
    (Returned(1) /\ ValidOptions(run[1].options)) =>
        RecordKeys(run[1].result) = EntryKeys(Window(run[1].options))

\* C2, amended: a run that ends without error returns exactly the entries
\* e(k+1) .. e(min(k+n, N)) of the filtered listing, the offset counter
\* carrying over from page to page; a run ended by an error returns nothing.
C2_Window ==
    (Returned(1) /\ ValidOptions(run[1].options)) =>
        IF run[1].err = "none"
        THEN RecordKeys(run[1].result) = EntryKeys(Window(run[1].options))
        ELSE run[1].result = <<>>

\* A run with a positive offset whose window starts on the first page and
\* ends on the second
C2_Witness ==
    /\ Returned(1)
    /\ run[1].err = "none"
    /\ run[1].options.offset >= 1
    /\ Len(run[1].result) >= 2
    /\ Len(run[1].walked) = 2
    /\ run[1].srcPos[1][1] = 1
    /\ run[1].srcPos[Len(run[1].srcPos)][1] = 2

\* ------------------------------------------------------------------ C3

\* Node a comes before node b in the listing: on an earlier page, or earlier
\* in document order on the same page
Before(a, b) == a[1] < b[1] \/ (a[1] = b[1] /\ a[2] < b[2])

\* C3: the records returned are in listing order: record n was made from the
\* n-th listing node the run acted on, and those nodes follow one another in
\* pagination order, then document order.
C3_ListingOrder ==
    (Returned(1) /\ run[1].err = "none") =>
        /\ Len(run[1].result) = Len(run[1].srcPos)
        /\ \A n \in 1..Len(run[1].result) :
              LET node == run[1].srcPos[n]
                  element == site.pages[node[1]][node[2]]
              IN  /\ run[1].result[n].url = element.href
                  /\ run[1].result[n].name = element.text
        /\ \A m, n \in 1..Len(run[1].srcPos) :
              m < n => Before(run[1].srcPos[m], run[1].srcPos[n])

\* Three records, from two pages
C3_Witness ==
    /\ Returned(1)
    /\ run[1].err = "none"
    /\ Len(run[1].result) = 3
    /\ run[1].srcPos[1][1] = 1
    /\ run[1].srcPos[3][1] = 2
    /\ run[1].result[1].url # run[1].result[2].url

\* ------------------------------------------------------------------ C4

\* The number of filtered entries on the pages a run walked before the page
\* it is on
RECURSIVE SurvivorsOn(_)
SurvivorsOn(pages) ==
    IF pages = <<>> THEN 0
    ELSE Len(Survivors(Head(pages))) + SurvivorsOn(Tail(pages))

\* C4: a listing element is dropped exactly when its text contains a ban
\* substring, case ignored, and dropped elements count neither for offset
\* nor for limit: while a run waits for the page of an entry, its elements
\* are the page's entries that no ban substring matches, its offset counter
\* is the number of such entries before the current one over all pages
\* walked, and its emitted count is the number of entries acted on.
C4_FilterBeforeCount ==
    run[1].pc \in {"fetchEntry", "convertImage"} =>
        LET f == run[1]
            page == f.walked[Len(f.walked)]
        IN  /\ f.elements = Survivors(page)
            /\ f.offset = SurvivorsOn(SubSeq(f.walked, 1, Len(f.walked) - 1)) + f.idx - 1
            /\ f.count = f.offset - f.options.offset
            /\ f.count = Len(f.data)

\* The run waits for the page of an entry that comes after a row banned only
\* when case is ignored, and after a skipped entry
C4_Witness ==
    /\ run[1].pc = "fetchEntry"
    /\ run[1].options.offset = 1
    /\ LET f == run[1]
           node == f.elements[f.idx].node
       IN  /\ node[2] > f.idx
           /\ f.offset = 1
           /\ \E k \in 1..(node[2] - 1) :
                 /\ site.pages[node[1]][k] = ElemBanUpper
                 /\ ~includes(ElemBanUpper.text, banList[1])

\* ------------------------------------------------------------------ C5

\* C5: called with limit < 1, offset < 0 or offset > limit, getAll fails
\* with an invalid-options error that reaches the caller.
C5_InvalidOptionsThrow ==
    (run[1].pc = "done" /\ ~ValidOptions(run[1].options)) =>
        run[1].outcome = "threw"

\* ------------------------------------------------------------------ C6

\* The errors of the classic path
RunTimeErrors ==
    {"Error while fetching", "No URL found", "No name found",
     "Error fetching or converting image"}

\* C6: getAll never lets a run-time error of the classic path reach its
\* caller: when a listing fetch, an entry fetch, a malformed entry or an
\* image conversion fails, getAll returns the empty collection, whatever
\* the run had accumulated.
C6_ErrorsReturnEmpty ==
    (run[1].pc = "done" /\ run[1].err \in RunTimeErrors) =>
        /\ run[1].outcome = "returned"
        /\ run[1].result = <<>>

\* An image conversion failed after the run had accumulated records
C6_Witness ==
    /\ run[1].pc = "done"
    /\ run[1].err = "Error fetching or converting image"
    /\ Len(run[1].data) >= 1
    /\ run[1].result = <<>>
    /\ run[1].outcome = "returned"

\* ------------------------------------------------------------------ C7

\* C7: with recursive false every returned record has its data absent and
\* parseCharacterPage is never called; with recursive true every returned
\* record carries a data mapping.
C7_DataOnlyWhenRecursive ==
    /\ ~run[1].options.recursive => run[1].nParse = 0
    /\ \A n \in 1..Len(run[1].result) :
          run[1].result[n].data.defined = run[1].options.recursive
    /\ \A n \in 1..Len(run[1].data) :
          run[1].data[n].data.defined = run[1].options.recursive

\* Two records or more returned by a run without recursive
C7_Witness ==
    /\ Returned(1)
    /\ ~run[1].options.recursive
    /\ Len(run[1].result) >= 2

\* ------------------------------------------------------------------ C8

\* The page has a script that holds the "pageId":<digits> pattern
HasPageIdPattern(page) ==
    \E n \in 1..Len(page.scripts) :
        \E i \in 1..Len(page.scripts[n]) : PageIdAt(page.scripts[n], i)

\* C8: with withId false no returned record carries an id; with withId true
\* every returned record carries a numeric id, 0 when the entry page holds
\* no "pageId":<digits> pattern.
C8_IdOnlyWithId ==
    \A n \in 1..Len(run[1].result) :
        LET record == run[1].result[n]
        IN  /\ record.hasId = run[1].options.withId
            /\ record.hasId =>
                  /\ record.id \in Nat
                  /\ ~HasPageIdPattern(EntryPages[record.url]) => record.id = 0

\* With withId, a record of the page without script (id 0) and a record of
\* the page with the pattern (id 42)
C8_Witness ==
    /\ Returned(1)
    /\ run[1].options.withId
    /\ \E m, n \in 1..Len(run[1].result) :
          /\ run[1].result[m].url = "/B" /\ run[1].result[m].id = 0
          /\ run[1].result[n].url = "/A" /\ run[1].result[n].id = 42

\* ------------------------------------------------------------------ C9

\* An entry the walk cannot act on: no href, or no text
Malformed(entry) == FalsyStr(entry.href) \/ entry.text = <<>>

\* What getAll(options) returns when it runs alone and every request is
\* answered: the window of the filtered listing, or nothing when the window
\* holds a malformed entry
AloneKeys(options) ==
    IF \E n \in 1..Len(Window(options)) : Malformed(Window(options)[n])
    THEN <<>>
    ELSE EntryKeys(Window(options))

\* C9: no mutable state is shared between concurrent getAll runs, on one
\* instance or on two: each run returns exactly the records it would return
\* if it ran alone.
C9_RunsIndependent ==
    \A r \in Runs :
        Returned(r) => RecordKeys(run[r].result) = AloneKeys(run[r].options)

\* ------------------------------------------------------------------ C10

\* The pair is in the registry
Registered(name, language) ==
    name \in DOMAIN Schemas /\ language \in DOMAIN Schemas[name]

\* C10: construction fails at once for every (name, language) that is not
\* in the registry, language defaulting to 'en' when null; a construction
\* that succeeds leaves the instance with the registry's schema for the pair.
C10_UnknownSiteFails ==
    scraper[1].state # "none" =>
        LET name == scraper[1].name
            language == IF scraper[1].language = Null THEN "en"
                        ELSE scraper[1].language
        IN  /\ ~Registered(name, language) => scraper[1].state = "threw"
            /\ scraper[1].state = "ok" =>
                  /\ Registered(name, language)
                  /\ scraper[1].schema = Schemas[name][language]

\* ------------------------------------------------------------------ C11

\* The number of the first "pageId":<digits> occurrence in the scripts of
\* the page, scanned in document order; 0 when no script holds the pattern
RECURSIVE FirstPageId(_)
FirstPageId(scripts) ==
    IF scripts = <<>> THEN 0
    ELSE IF \E i \in 1..Len(Head(scripts)) : PageIdAt(Head(scripts), i)
         THEN extractPageId(Head(scripts))
         ELSE FirstPageId(Tail(scripts))

\* C11: with withId, the id of a record is the number of the first
\* "pageId":<digits> occurrence in the scripts of its page, in document
\* order, and 0 only if no script of the page holds the pattern.
C11_FirstPatternOfPage ==
    \A n \in 1..Len(run[1].result) :
        run[1].result[n].hasId =>
            /\ run[1].result[n].id = FirstPageId(EntryPages[run[1].result[n].url].scripts)
            /\ (run[1].result[n].id = 0 =>
                   ~HasPageIdPattern(EntryPages[run[1].result[n].url]))

\* ------------------------------------------------------------------ C12

\* The locator the field map gives for a key
LocatorOf(key) ==
    LET n == CHOOSE n \in 1..Len(DataSource) : DataSource[n].key = key
    IN  DataSource[n].locator

\* The values of the images of a page, one for each element of the class
\* that has a src, in document order: the src, or its base64 encoding
RECURSIVE ImageValues(_, _, _)
ImageValues(elements, class, base64) ==
    IF elements = <<>> THEN <<>>
    ELSE LET e == Head(elements)
             rest == ImageValues(Tail(elements), class, base64)
         IN  IF e.class = class /\ e.src # Null /\ e.src # ""
             THEN <<IF base64 THEN Base64Of(e.src) ELSE e.src>> \o rest
             ELSE rest

\* The value a data mapping holds for a key, as a sequence: empty when the
\* key is absent
ValuesOf(map, key) ==
    LET hits == SelectSeq(map, LAMBDA entry : entry.key = key)
    IN  [n \in 1..Len(hits) |-> hits[n].value]

\* C12: with a non-empty locator for images and recursive extraction, the
\* images field of a record's data is the ordered sequence of the values of
\* the elements of the locator's class that have a src, and never any other
\* kind of value.
C12_ImagesIsSrcList ==
    \A n \in 1..Len(run[1].result) :
        LET record == run[1].result[n]
            page == EntryPages[record.url]
        IN  (record.data.defined /\ LocatorOf("images") # "") =>
                ValuesOf(record.data.map, "images") =
                    << [kind |-> "array",
                        items |-> ImageValues(page.images, LocatorOf("images"),
                                              run[1].options.base64)] >>

\* ------------------------------------------------------------------ C13

\* The errors thrown for a listing element without href or without text
MalformedErrors == {"No URL found", "No name found"}

\* The errors of a request
RequestErrors == {"Error while fetching", "Error fetching or converting image"}

\* C13, as stated: if any surviving element on a page the walk visited
\* lacks its href or its text, before the offset or inside the window, the
\* run fails with a malformed-entry error instead of completing normally.
C13_AsStated ==
    (/\ run[1].pc = "done"
     /\ ValidOptions(run[1].options)
     /\ run[1].err \notin RequestErrors
     /\ \E k \in 1..Len(run[1].walked) :
           \E n \in 1..Len(Survivors(run[1].walked[k])) :
               Malformed(Survivors(run[1].walked[k])[n]))
        => run[1].err \in MalformedErrors

\* C13, amended: every surviving element the walk acts on, met once the
\* offset counter has reached the requested offset and before limit records
\* were emitted, must have both href and text: a run never completes
\* normally over a window that holds an element without one of them, it
\* fails with the error of the first such element of the window; surviving
\* elements before the offset or after the limit-th record are not examined.
C13_MalformedInWindow ==
    LET f == run[1]
        window == Window(f.options)
    IN  /\ (f.pc = "done" /\ ValidOptions(f.options) /\ f.err = "none") =>
              \A n \in 1..Len(window) : ~Malformed(window[n])
        /\ (f.pc = "done" /\ f.err \in MalformedErrors) =>
              /\ Len(f.data) < Len(window)
              /\ \A n \in 1..Len(f.data) : ~Malformed(window[n])
              /\ f.err = IF FalsyStr(window[Len(f.data) + 1].href)
                         THEN "No URL found"
                         ELSE IF window[Len(f.data) + 1].text = <<>>
                         THEN "No name found"
                         ELSE "none"
        /\ f.pc \in {"fetchEntry", "convertImage"} =>
              ~Malformed(f.elements[f.idx])

\* A run that skipped an element without text before the offset, emitted a
\* record and then failed on an element without href
C13_Witness ==
    /\ run[1].pc = "done"
    /\ run[1].err = "No URL found"
    /\ run[1].options.offset = 1
    /\ Len(run[1].data) >= 1
    /\ Malformed(Listing[1])

\* ------------------------------------------------------------------ C14

\* C14: once the emitted count equals limit the run has returned, at once
\* and even in the middle of a page: it returns the limit records, it has
\* requested limit character pages and no more, its for loop still stands on
\* the element of the last record with the offset counter not advanced, and
\* it has requested no listing page beyond the ones it walked.
C14_StopsAtLimit ==
    LET f == run[1]
    IN  (f.pc # "idle" /\ ValidOptions(f.options) /\ f.count = f.options.limit) =>
            /\ Returned(1)
            /\ f.err = "none"
            /\ f.result = f.data
            /\ Len(f.result) = f.options.limit
            /\ f.nEntry = f.options.limit
            /\ f.idx <= Len(f.elements)
            /\ f.elements[f.idx].node = f.srcPos[Len(f.srcPos)]
            /\ f.offset = f.options.offset + f.options.limit - 1
            /\ f.hasNext
            /\ f.nList = Len(f.walked)

\* A run that returned at the limit with elements left on its page and a
\* further page in the listing
C14_Witness ==
    /\ Returned(1)
    /\ run[1].count = run[1].options.limit
    /\ run[1].options.limit >= 2
    /\ run[1].idx < Len(run[1].elements)
    /\ ~Malformed(run[1].elements[run[1].idx + 1])
    /\ run[1].walked = <<1>>
    /\ Len(site.pages) = 2

\* ------------------------------------------------------------------ C15

\* C15: when the entries of a listing page are processed without reaching
\* the limit, a page with no next control, or with a next control without
\* href, ends the walk: the run returns all the records collected and has
\* requested no listing page beyond the ones it walked; otherwise the run
\* requests exactly the href of the next control of the page it just walked,
\* so that the pages walked are the pages of the chain, in order. A single
\* page of 3 entries that pass the filter, with no next control and a limit
\* above 3, yields exactly 3 records.
C15_NextControl ==
    LET f == run[1]
        last == f.walked[Len(f.walked)]
    IN  /\ \A k \in 1..Len(f.walked) : f.walked[k] = k
        /\ (f.pc = "fetchList" /\ f.walked # <<>>) =>
              /\ NextControl(site, last).present
              /\ ~FalsyStr(NextControl(site, last).href)
              /\ f.pending = NextControl(site, last).href
              /\ f.nList = Len(f.walked) + 1
              /\ f.hasNext
              /\ f.count < f.options.limit
        /\ (Returned(1) /\ ValidOptions(f.options) /\ f.err = "none"
              /\ f.count < f.options.limit) =>
              /\ Exhausted(1)
              /\ ~NextControl(site, last).present
                    \/ FalsyStr(NextControl(site, last).href)
              /\ f.result = f.data
              /\ Len(f.result) = Len(Window(f.options))
              /\ f.nList = Len(f.walked)
        /\ (Returned(1) /\ f.err = "none" /\ f.options.offset = 0
              /\ f.options.limit > 3
              /\ Len(site.pages) = 1 /\ Len(Survivors(1)) = 3) =>
              Len(f.result) = 3

\* getAll() returned the 3 records of a single page of 3 entries with no
\* next control
C15_Witness ==
    /\ Returned(1)
    /\ run[1].options = DefaultOptions
    /\ site.pages = << <<ElemA, ElemB, ElemC>> >>
    /\ site.last = "none"
    /\ run[1].walked = <<1>>
    /\ ~run[1].hasNext
    /\ EntryKeys(Listing) = RecordKeys(run[1].result)
    /\ Len(run[1].result) = 3

\* ------------------------------------------------------------------ C16

\* The general fields of the field map
GeneralKeys == {n \in 1..Len(DataSource) : DataSource[n].key # "images"}

\* The number of the first infobox row of a page with a data-source, 0 when
\* the page has none
FirstRow(page, source) ==
    IF \E k \in 1..Len(page.infobox) : page.infobox[k].source = source
    THEN CHOOSE k \in 1..Len(page.infobox) :
            /\ page.infobox[k].source = source
            /\ \A j \in 1..(k - 1) : page.infobox[j].source # source
    ELSE 0

\* The first row with the data-source has a first value element, with text
FirstMatchHit(page, source) ==
    /\ source # ""
    /\ FirstRow(page, source) # 0
    /\ page.infobox[FirstRow(page, source)].values # <<>>
    /\ page.infobox[FirstRow(page, source)].values[1] # <<>>

\* Some row with the data-source has some value element with text
SomeMatchHit(page, source) ==
    /\ source # ""
    /\ \E k \in 1..Len(page.infobox) :
          /\ page.infobox[k].source = source
          /\ \E v \in 1..Len(page.infobox[k].values) : page.infobox[k].values[v] # <<>>

\* C16, as stated: a general field's key is present in the extracted data
\* exactly when its locator is non-empty and the page has an element with
\* that data-source containing a data-value element with non-empty text.
C16_AsStated ==
    \A n \in 1..Len(run[1].result) :
        LET record == run[1].result[n]
        IN  record.data.defined =>
               \A g \in GeneralKeys :
                   (ValuesOf(record.data.map, DataSource[g].key) # <<>>)
                       <=> SomeMatchHit(EntryPages[record.url], DataSource[g].locator)

\* C16, amended: a general field's key is present in the extracted data
\* exactly when its locator is non-empty, the first element of the page with
\* that data-source has a data-value element and the first such element has
\* non-empty text; the value is then that text without its bracketed parts.
\* Presence and value of a general field depend on nothing else: a field
\* that misses leaves every other field as it is, and the record is made.
C16_FirstMatchOnly ==
    \A n \in 1..Len(run[1].result) :
        LET record == run[1].result[n]
            page == EntryPages[record.url]
        IN  record.data.defined =>
               \A g \in GeneralKeys :
                   ValuesOf(record.data.map, DataSource[g].key) =
                      IF FirstMatchHit(page, DataSource[g].locator)
                      THEN << [kind |-> "string",
                               items |-> removeBrackets(
                                  page.infobox[FirstRow(page, DataSource[g].locator)].values[1])] >>
                      ELSE <<>>

\* A record extracted from /A: kanji found, status missed on a first row
\* without value although a later row has one, age without locator
C16_Witness ==
    /\ Returned(1)
    /\ \E n \in 1..Len(run[1].result) :
          /\ run[1].result[n].url = "/A"
          /\ run[1].result[n].data.defined
          /\ ValuesOf(run[1].result[n].data.map, "kanji") =
                << [kind |-> "string", items |-> <<"L">>] >>
          /\ ValuesOf(run[1].result[n].data.map, "status") = <<>>
          /\ ValuesOf(run[1].result[n].data.map, "age") = <<>>
          /\ SomeMatchHit(EntryPages["/A"], "status")

\* ------------------------------------------------------------------ C17

\* C17: the options are checked before any network activity: a getAll call
\* with limit < 1, offset < 0 or offset > limit ends in the step that made
\* it, with no request issued for a listing page, a character page or an
\* image, and with the listing page held by the instance unchanged; a run
\* that waits for a request has valid options.
C17_ValidationFirst ==
    /\ [](run[1].pc \in {"fetchList", "fetchEntry", "convertImage"} =>
             ValidOptions(run[1].options))
    /\ [][(run[1].pc = "idle" /\ run'[1].pc # "idle"
              /\ ~ValidOptions(run'[1].options)) =>
             /\ CharactersPage' = CharactersPage
             /\ run'[1].pc = "done"
             /\ run'[1].err = InvalidOptions(run'[1].options)
             /\ run'[1].err # "none"
             /\ run'[1].nList = 0
             /\ run'[1].nEntry = 0
             /\ run'[1].nImage = 0
             /\ run'[1].walked = <<>>]_vars

\* A call with offset above limit has ended, no request made, on an
\* instance that holds the second listing page
C17_Witness ==
    /\ run[1].pc = "done"
    /\ run[1].options.limit >= 1
    /\ run[1].options.offset > run[1].options.limit
    /\ run[1].nList = 0
    /\ run[1].nEntry = 0
    /\ run[1].nImage = 0
    /\ CharactersPage[1] = 2

\* ------------------------------------------------------------------ C18

\* C18: when every request is answered, over a listing that is a finite
\* chain of pages none of which is met twice, every getAll run returns in
\* the end, and it never requests more listing pages than the chain has.
C18_Terminates ==
    /\ [](run[1].nList <= Len(site.pages))
    /\ (run[1].pc \in {"fetchList", "fetchEntry", "convertImage"})
          ~> (run[1].pc = "done")

\* A run that returned after it requested every page of a chain of two
C18_Witness ==
    /\ Returned(1)
    /\ run[1].err = "none"
    /\ Len(site.pages) = 2
    /\ run[1].nList = 2
    /\ run[1].walked = <<1, 2>>
    /\ run[1].nEntry >= 1

\* ------------------------------------------------------------------ C19

\* C19: in every state of a run the emitted count is the number of records
\* accumulated and is at most limit, and a character page is requested only
\* for an entry of the requested window: the page a run waits for is the
\* page of entry count + 1 of the window (never a banned entry, one before
\* the offset or one after the limit-th), record n came from entry n of the
\* window, the number of character pages requested is count, plus one while
\* a request is being served or has failed, and a run that returns without
\* error has requested as many character pages as it returns records.
C19_FetchOnlyInWindow ==
    LET f == run[1]
        window == Window(f.options)
    IN  /\ f.count = Len(f.data)
        /\ f.count <= f.options.limit
        /\ Len(f.srcPos) = f.count
        /\ f.nEntry \in {f.count, f.count + 1}
        /\ (f.nEntry = f.count + 1) <=>
              \/ f.pc \in {"fetchEntry", "convertImage"}
              \/ f.pc = "done" /\ f.err \in RequestErrors /\ f.pending \in DOMAIN EntryPages
        /\ (f.pc # "idle" /\ ValidOptions(f.options)) =>
              /\ f.count <= Len(window)
              /\ \A n \in 1..f.count : f.srcPos[n] = window[n].node
        /\ f.pc \in {"fetchEntry", "convertImage"} =>
              /\ f.count < Len(window)
              /\ f.elements[f.idx].node = window[f.count + 1].node
              /\ f.pending = window[f.count + 1].href
              /\ ~BannedText(f.elements[f.idx].text)
              /\ f.offset = f.options.offset + f.count
        /\ (Returned(1) /\ f.err = "none") => f.nEntry = Len(f.result)

\* A run that dropped a banned entry, skipped one entry below the offset,
\* requested the page of the next one and returned its record, with entries
\* left after it
C19_Witness ==
    /\ Returned(1)
    /\ run[1].err = "none"
    /\ run[1].options.offset = 1
    /\ run[1].options.limit = 1
    /\ site.pages[1] = <<ElemBanLower, ElemA, ElemBanUpper, ElemC, ElemBanNoHref>>
    /\ Len(site.pages) = 2
    /\ Len(Listing) >= 3
    /\ Len(run[1].result) = 1
    /\ run[1].result[1].url = "/C"
    /\ run[1].nEntry = 1

\* ------------------------------------------------------------------ C20

\* parseCharacterPage run to its end, every image conversion answered
RECURSIVE FullParse(_, _, _)
FullParse(page, options, p) ==
    LET q == parseCharacterPage(page, options, p)
        src == ByClassName(page.images, DataSource[q.k].locator)[q.i].src
    IN  IF q.wait
        THEN FullParse(page, options,
                 [q EXCEPT !.images = Append(@, Base64Of(src)), !.i = @ + 1,
                           !.wait = FALSE])
        ELSE q.data

\* The record of a listing entry under given options
RecordOf(entry, options) ==
    LET page == EntryPages[entry.href]
    IN  [hasId |-> options.withId,
         id |-> IF options.withId THEN extractPageId(PageIdScript(page.scripts))
                ELSE 0,
         url |-> entry.href, name |-> entry.text,
         data |-> IF options.recursive
                  THEN [defined |-> TRUE, map |-> FullParse(page, options, ParseStart)]
                  ELSE [defined |-> FALSE, map |-> <<>>]]

\* What getAll(options) returns over the site when its requests are answered:
\* a function of the site and of the options, and of nothing else
RecordsOf(options) ==
    IF ~ValidOptions(options) THEN <<>>
    ELSE IF \E n \in 1..Len(Window(options)) : Malformed(Window(options)[n])
    THEN <<>>
    ELSE [n \in 1..Len(Window(options)) |-> RecordOf(Window(options)[n], options)]

\* C20: every getAll run starts its walk from the schema's listing URL, with
\* offset and count at 0 and an empty accumulator, whatever listing page
\* the instance holds from an earlier getAll or getCharactersPage: the first
\* page a run walks is the first page of the listing; hence what a run
\* returns, when its requests are answered, depends on the site and on the
\* options only, and two calls with the same options, one after the other
\* on one instance over an unchanged site, return the same records.
C20_FreshStart ==
    LET f == run[1]
    IN  /\ (f.pc = "fetchList" /\ f.walked = <<>>) =>
              /\ f.pending = scraper[1].schema.charactersUrl
              /\ f.offset = 0
              /\ f.count = 0
              /\ f.data = <<>>
              /\ f.hasNext
              /\ f.nList = 1
        /\ f.walked # <<>> => f.walked[1] = PageIndexOf(scraper[1].schema.charactersUrl)
        /\ (Returned(1) /\ f.err \notin RequestErrors) =>
              f.result = RecordsOf(f.options)

\* getAll was called on an instance that holds the second listing page, and
\* requests the schema's listing URL
C20_Witness ==
    /\ run[1].pc = "fetchList"
    /\ run[1].walked = <<>>
    /\ CharactersPage[1] = 2
    /\ run[1].pending = DeathNoteEN.charactersUrl
    /\ Len(Listing) >= 2

====
